---- MODULE Spec2Model ----
(***************************************************************************)
(* A model of airflow/api_internal/internal_api_call.py: the process-wide  *)
(* InternalApiConfig gate and the internal_api_call decorator (the wrapper *)
(* and its retried make_jsonrpc_request).                                  *)
(*                                                                         *)
(* Python values are records [type, repr]; exceptions are records          *)
(* [type, status, reason, text, cause]; a str is a TLA+ string and an      *)
(* f-string is a concatenation with \o.                                    *)
(***************************************************************************)
EXTENDS Naturals, Sequences, FiniteSets, TLC

VARIABLES
    conf,                   \* airflow.configuration.conf and settings._ENABLE_AIP_44
    initialized,            \* InternalApiConfig._initialized
    use_internal_api,       \* InternalApiConfig._use_internal_api
    internal_api_endpoint,  \* InternalApiConfig._internal_api_endpoint
    forced,                 \* history: a force_* call has run in this process
    last_op,                \* the gate operation the last step was, with what it was given,
                            \* what it returned or raised and the configuration keys it read
    pc,                     \* where the one wrapped call stands
    call,                   \* the call in progress: [func, args, kwargs]
    w_use_internal_api,     \* wrapper's local use_internal_api (line 151): "unbound",
                            \* "True" or "False"
    f_calls,                \* the in-process invocations of func made by this call
    request,                \* what wrapper handed on: [built, arguments_dict, args_dict, method_name]
    attempt_number,         \* tenacity's retry_state.attempt_number
    events,                 \* what this call did on the wire and in the log, in order
    last_post,              \* the last requests.post: [url, method, params, token_method,
                            \* token_serial]
    last_attempt,           \* the exception the last attempt raised (tenacity's
                            \* retry_state.outcome), NoExc when it returned
    response,               \* the last HTTP response received: [status, reason, body]
    deserialize_calls,      \* number of BaseSerialization.deserialize calls of this call
    outcome,                \* how the call ended: [kind, value, exc]
    last_force,             \* history: the last force_* call that returned, as in last_op
    tpc,                    \* per thread: where its getter call stands
    tget,                   \* per thread: the getter it called last
    tval,                   \* per thread: _init_values' locals use_internal_api and
                            \* internal_api_endpoint (lines 88, 92, 101)
    tret,                   \* per thread: what its last getter call returned or raised
    tfresh                  \* per thread, history: its getter call began after a force_*
                            \* call had returned and no force_* call has run since

\* The threads that read the gate concurrently.
Threads == {"t1", "t2"}

gate_vars == <<initialized, use_internal_api, internal_api_endpoint, forced>>
call_vars == <<pc, call, w_use_internal_api, f_calls, request, attempt_number,
               events, last_post, last_attempt, response, deserialize_calls, outcome>>
thread_vars == <<tpc, tget, tval, tret, tfresh>>
vars == <<conf, initialized, use_internal_api, internal_api_endpoint, forced, last_op,
          pc, call, w_use_internal_api, f_calls, request, attempt_number,
          events, last_post, last_attempt, response, deserialize_calls, outcome,
          last_force, tpc, tget, tval, tret, tfresh>>

(***************************************************************************)
(* Bounds of the model.                                                    *)
(***************************************************************************)
MaxPositional == 1      \* a call passes at most this many positional arguments
MaxKeyword == 1         \* ... and at most this many keyword arguments

(***************************************************************************)
(* Values, exceptions and outcomes.                                        *)
(***************************************************************************)
PyValue(t, r) == [type |-> t, repr |-> r]
PyNone == PyValue("NoneType", "None")

Exc(t) == [type |-> t, status |-> 0, reason |-> "", text |-> "", cause |-> ""]
NoExc == Exc("")

NoOutcome == [kind |-> "none", value |-> PyNone, exc |-> NoExc]
Returned(v) == [kind |-> "returned", value |-> v, exc |-> NoExc]
Raised(e) == [kind |-> "raised", value |-> PyNone, exc |-> e]

(***************************************************************************)
(* Configuration.  A configured URL is the sequence of its lexical tokens  *)
(* ("https", ":", "//", "api", "/", "custom", ...): urlparse splits it.    *)
(***************************************************************************)
RECURSIVE Concat(_)
Concat(toks) == IF toks = <<>> THEN "" ELSE Head(toks) \o Concat(Tail(toks))

ConfUrls ==
    { <<"http", ":", "//", "api:9080">>,
      <<"https", ":", "//", "api", "/">>,
      <<"https", ":", "//", "api", "/", "custom", "/", "rpc">>,
      <<"ftp", ":", "//", "api", "/", "files">> }

DefaultUrl == <<"http", ":", "//", "api:9080">>

\* [core] database_access_isolation, [core] internal_api_url, settings._ENABLE_AIP_44.
\* The URL is read only with isolation on and AIP-44 enabled: elsewhere one stands for all.
Configs ==
    { c \in [database_access_isolation : BOOLEAN, ENABLE_AIP_44 : BOOLEAN,
             internal_api_url : ConfUrls] :
        (~c.database_access_isolation \/ ~c.ENABLE_AIP_44)
            => c.internal_api_url = DefaultUrl }

\* urllib.parse.urlparse (line 94): "<scheme>:" when the second token is the colon,
\* "//<netloc>" after it, and the rest is the path.
urlparse(u) ==
    LET has_scheme == Len(u) >= 2 /\ u[2] = ":"
        rest == IF has_scheme THEN SubSeq(u, 3, Len(u)) ELSE u
        has_netloc == Len(rest) >= 1 /\ rest[1] = "//"
        after == IF has_netloc THEN SubSeq(rest, 2, Len(rest)) ELSE rest
        named == has_netloc /\ Len(after) >= 1 /\ after[1] # "/"
    IN  [scheme |-> IF has_scheme THEN u[1] ELSE "",
         netloc |-> IF named THEN after[1] ELSE "",
         path |-> Concat(IF named THEN Tail(after) ELSE after)]

DefaultApiPath == "/internal_api/v1/rpcapi"

\* Mutant of resolve_endpoint: only the empty path gets the default ("/" left out
\* of the list of line 96).
resolve_endpoint_root_kept(url_conf) ==
    LET api_path == IF url_conf.path = "" THEN DefaultApiPath ELSE url_conf.path IN
    IF url_conf.scheme \notin {"http", "https"}
    THEN [exc |-> Exc("AirflowConfigException"), use |-> FALSE, endpoint |-> "",
          reads |-> {"database_access_isolation", "internal_api_url"}]
    ELSE [exc |-> NoExc, use |-> TRUE,
          endpoint |-> url_conf.scheme \o "://" \o url_conf.netloc \o api_path,
          reads |-> {"database_access_isolation", "internal_api_url"}]

\* Lines 95-101: the endpoint resolved from the parsed URL, or the exception of
\* line 100.
resolve_endpoint(url_conf) ==
    LET api_path == IF url_conf.path \in {"", "/"} THEN DefaultApiPath ELSE url_conf.path IN
    IF url_conf.scheme \notin {"http", "https"}
    THEN [exc |-> Exc("AirflowConfigException"), use |-> FALSE, endpoint |-> "",
          reads |-> {"database_access_isolation", "internal_api_url"}]
    ELSE [exc |-> NoExc, use |-> TRUE,
          endpoint |-> url_conf.scheme \o "://" \o url_conf.netloc \o api_path,
          reads |-> {"database_access_isolation", "internal_api_url"}]

\* Mutant of resolve_endpoint: the scheme is not checked (lines 99-100 left out).
resolve_endpoint_any_scheme(url_conf) ==
    LET api_path == IF url_conf.path \in {"", "/"} THEN DefaultApiPath ELSE url_conf.path IN
    [exc |-> NoExc, use |-> TRUE,
     endpoint |-> url_conf.scheme \o "://" \o url_conf.netloc \o api_path,
     reads |-> {"database_access_isolation", "internal_api_url"}]

\* Mutant of init_values: only the empty path gets the default.
init_values_root_kept(c) ==
    IF c.database_access_isolation /\ ~c.ENABLE_AIP_44
    THEN [exc |-> Exc("RuntimeError"), use |-> FALSE, endpoint |-> "",
          reads |-> {"database_access_isolation"}]
    ELSE IF c.database_access_isolation
    THEN resolve_endpoint_root_kept(urlparse(c.internal_api_url))
    ELSE [exc |-> NoExc, use |-> FALSE, endpoint |-> "",
          reads |-> {"database_access_isolation"}]

\* Mutant of init_values: the scheme is not checked.
init_values_any_scheme(c) ==
    IF c.database_access_isolation /\ ~c.ENABLE_AIP_44
    THEN [exc |-> Exc("RuntimeError"), use |-> FALSE, endpoint |-> "",
          reads |-> {"database_access_isolation"}]
    ELSE IF c.database_access_isolation
    THEN resolve_endpoint_any_scheme(urlparse(c.internal_api_url))
    ELSE [exc |-> NoExc, use |-> FALSE, endpoint |-> "",
          reads |-> {"database_access_isolation"}]

\* Lines 88-105: what _init_values computes, without its three stores.
\* [exc]: NoExc, or the exception raised before any store; [reads]: the [core]
\* options it asked conf for.
init_values(c) ==
    IF c.database_access_isolation /\ ~c.ENABLE_AIP_44
    THEN [exc |-> Exc("RuntimeError"), use |-> FALSE, endpoint |-> "",
          reads |-> {"database_access_isolation"}]
    ELSE IF c.database_access_isolation
    THEN resolve_endpoint(urlparse(c.internal_api_url))
    ELSE [exc |-> NoExc, use |-> FALSE, endpoint |-> "",
          reads |-> {"database_access_isolation"}]

\* The gate as a record, for the getters below.
Gate == [initialized |-> initialized, use_internal_api |-> use_internal_api,
         internal_api_endpoint |-> internal_api_endpoint]

\* Lines 103-105 with only the mode stored (line 105 left out).
store_values_drops_endpoint(g, v) ==
    IF v.exc # NoExc
    THEN [gate |-> g, exc |-> v.exc, reads |-> v.reads]
    ELSE [gate |-> [initialized |-> TRUE, use_internal_api |-> v.use,
                    internal_api_endpoint |-> g.internal_api_endpoint],
          exc |-> NoExc, reads |-> v.reads]

\* Lines 103-105: the stores of _init_values, made when it raised nothing.
store_values(g, v) ==
    IF v.exc # NoExc
    THEN [gate |-> g, exc |-> v.exc, reads |-> v.reads]
    ELSE [gate |-> [initialized |-> TRUE, use_internal_api |-> v.use,
                    internal_api_endpoint |-> v.endpoint],
          exc |-> NoExc, reads |-> v.reads]

\* Mutant of lazy_init: the computed endpoint is not stored.
lazy_init_drops_endpoint(g, c) ==
    IF g.initialized
    THEN [gate |-> g, exc |-> NoExc, reads |-> {}]
    ELSE store_values_drops_endpoint(g, init_values(c))

\* Mutant of lazy_init: _init_values runs on every read (the test of line 77 and
\* line 83 left out).
lazy_init_always(g, c) == store_values(g, init_values(c))

\* Lines 77-78 and 83-84: the lazy initialization both getters start with.
\* [gate]: the gate afterwards; [exc]: the exception _init_values raised, or NoExc.
lazy_init(g, c) ==
    IF g.initialized
    THEN [gate |-> g, exc |-> NoExc, reads |-> {}]
    ELSE store_values(g, init_values(c))

\* Lines 79 and 85: what the getter returns after the lazy initialization r.
return_use_internal_api(r) ==
    [gate |-> r.gate, exc |-> r.exc, reads |-> r.reads, ret |-> r.gate.use_internal_api]
return_internal_api_endpoint(r) ==
    [gate |-> r.gate, exc |-> r.exc, reads |-> r.reads,
     ret |-> r.gate.internal_api_endpoint]

\* Lines 75-79.
get_use_internal_api(g, c) == return_use_internal_api(lazy_init(g, c))

\* Lines 81-85.
get_internal_api_endpoint(g, c) == return_internal_api_endpoint(lazy_init(g, c))

SetGate(g) ==
    /\ initialized' = g.initialized
    /\ use_internal_api' = g.use_internal_api
    /\ internal_api_endpoint' = g.internal_api_endpoint

\* Endpoints a caller hands to force_api_access: URLs, of a scheme requests can
\* post to or not.
ForceUrls ==
    { <<"http", ":", "//", "edge:8080", "/", "rpc">>,
      <<"ftp", ":", "//", "edge", "/", "rpc">> }
ForceEndpoints == {Concat(u) : u \in ForceUrls}

Getters == {"get_use_internal_api", "get_internal_api_endpoint"}
Forces == {"force_database_direct_access", "force_api_access"}

\* What a gate operation leaves in last_op.  A returned bool or str is a PyValue; a
\* getter that raised returned nothing.
NoOp == [op |-> "", arg |-> "", ret |-> PyNone, exc |-> NoExc, reads |-> {}]
Forced(name, arg) == [op |-> name, arg |-> arg, ret |-> PyNone, exc |-> NoExc, reads |-> {}]
PyBool(b) == PyValue("bool", IF b THEN "True" ELSE "False")
PyStr(x) == PyValue("str", x)
Got(name, r, value) ==
    [op |-> name, arg |-> "", ret |-> IF r.exc = NoExc THEN value ELSE PyNone,
     exc |-> r.exc, reads |-> r.reads]

\* _init_values' locals before the function has run.
NoVal == [use |-> FALSE, endpoint |-> ""]

\* Lines 50-61.
force_database_direct_access ==
    /\ initialized' = TRUE
    /\ use_internal_api' = FALSE
    /\ forced' = TRUE
    /\ tfresh' = [t \in Threads |-> FALSE]
    /\ UNCHANGED <<tpc, tget, tval, tret>>
    /\ last_op' = Forced("force_database_direct_access", "")
    /\ last_force' = Forced("force_database_direct_access", "")
    /\ UNCHANGED <<internal_api_endpoint, conf>>
    /\ UNCHANGED call_vars

\* Mutant of force_api_access: the endpoint is not stored (line 73 left out).
force_api_access_keeps_endpoint(api_endpoint) ==
    /\ initialized' = TRUE
    /\ use_internal_api' = TRUE
    /\ forced' = TRUE
    /\ tfresh' = [t \in Threads |-> FALSE]
    /\ UNCHANGED <<tpc, tget, tval, tret>>
    /\ last_op' = Forced("force_api_access", api_endpoint)
    /\ last_force' = Forced("force_api_access", api_endpoint)
    /\ UNCHANGED <<internal_api_endpoint, conf>>
    /\ UNCHANGED call_vars

\* Lines 63-73.
force_api_access(api_endpoint) ==
    /\ initialized' = TRUE
    /\ use_internal_api' = TRUE
    /\ internal_api_endpoint' = api_endpoint
    /\ forced' = TRUE
    /\ tfresh' = [t \in Threads |-> FALSE]
    /\ UNCHANGED <<tpc, tget, tval, tret>>
    /\ last_op' = Forced("force_api_access", api_endpoint)
    /\ last_force' = Forced("force_api_access", api_endpoint)
    /\ UNCHANGED conf
    /\ UNCHANGED call_vars

ForceApiAccess == \E e \in ForceEndpoints : force_api_access(e)

\* A caller other than the wrapper reads the mode (lines 75-79) or the endpoint
\* (lines 81-85): r is what the getter did, value what it returned; an exception of
\* _init_values leaves the gate as it was.
gate_read(name, r, value) ==
    /\ SetGate(r.gate)
    /\ last_op' = Got(name, r, value)
    /\ UNCHANGED <<forced, conf, last_force, thread_vars>>
    /\ UNCHANGED call_vars

GetUseInternalApi ==
    gate_read("get_use_internal_api", get_use_internal_api(Gate, conf),
              PyBool(get_use_internal_api(Gate, conf).ret))

GetInternalApiEndpoint ==
    gate_read("get_internal_api_endpoint", get_internal_api_endpoint(Gate, conf),
              PyStr(get_internal_api_endpoint(Gate, conf).ret))

(***************************************************************************)
(* The wrapped operations and the calls made to them.                      *)
(***************************************************************************)
Required == [has |-> FALSE, value |-> ""]
Default(v) == [has |-> TRUE, value |-> v]
Param(n, d) == [name |-> n, default |-> d]

\* Two operations decorated with internal_api_call (line 108): one that takes a
\* session, one that is handed its class as cls.
VariableGet ==
    [module |-> "airflow.models.variable", qualname |-> "Variable.get",
     params |-> <<Param("key", Required), Param("session", Default("NEW_SESSION"))>>]
DagGetPaused ==
    [module |-> "airflow.models.dag", qualname |-> "DagModel.get_paused",
     params |-> <<Param("cls", Required), Param("limit", Default("5"))>>]
Funcs == {VariableGet, DagGetPaused}

\* "lock" stands for an object the serializer has no encoding for.
ArgValues == {"1", "2", "lock"}
KeywordNames == {"key", "session", "cls", "limit"}

RECURSIVE SeqsUpTo(_, _)
SeqsUpTo(S, n) ==
    IF n = 0 THEN {<<>>}
    ELSE LET shorter == SeqsUpTo(S, n - 1) IN
         shorter \cup {Append(q, v) : q \in {r \in shorter : Len(r) = n - 1}, v \in S}

\* *args and **kwargs of a call of the wrapper (line 150).
Calls ==
    { [func |-> f, args |-> a, kwargs |-> k] :
        f \in Funcs,
        a \in SeqsUpTo(ArgValues, MaxPositional),
        k \in UNION { [names -> ArgValues] :
                        names \in {n \in SUBSET KeywordNames : Cardinality(n) <= MaxKeyword} } }

NoCall == [func |-> VariableGet, args |-> <<>>, kwargs |-> <<>>]

ParamNames(func) == {func.params[i].name : i \in DOMAIN func.params}
ParamIndex(func, n) == CHOOSE i \in DOMAIN func.params : func.params[i].name = n

\* Mutant of bind: bound.apply_defaults() is called, so that omitted parameters
\* appear with their defaults.
bind_apply_defaults(func, args, kwargs) ==
    LET positional == {func.params[i].name : i \in DOMAIN func.params \cap DOMAIN args}
        keyword == DOMAIN kwargs
        required == {func.params[i].name :
                        i \in {j \in DOMAIN func.params : ~func.params[j].default.has}}
        fits == /\ Len(args) <= Len(func.params)
                /\ keyword \subseteq ParamNames(func)
                /\ keyword \cap positional = {}
                /\ required \subseteq positional \cup keyword
    IN  IF ~fits
        THEN [exc |-> Exc("TypeError"), arguments |-> <<>>]
        ELSE [exc |-> NoExc,
              arguments |-> [n \in ParamNames(func) |->
                                IF n \in positional THEN args[ParamIndex(func, n)]
                                ELSE IF n \in keyword THEN kwargs[n]
                                ELSE func.params[ParamIndex(func, n)].default.value]]

\* inspect.signature(func).bind(*args, **kwargs) (line 157) for positional-or-keyword
\* parameters: [exc] is the TypeError of a call that does not fit the signature,
\* [arguments] maps the names the call bound (and no others) to their values.
bind(func, args, kwargs) ==
    LET positional == {func.params[i].name : i \in DOMAIN func.params \cap DOMAIN args}
        keyword == DOMAIN kwargs
        required == {func.params[i].name :
                        i \in {j \in DOMAIN func.params : ~func.params[j].default.has}}
        fits == /\ Len(args) <= Len(func.params)
                /\ keyword \subseteq ParamNames(func)
                /\ keyword \cap positional = {}
                /\ required \subseteq positional \cup keyword
    IN  IF ~fits
        THEN [exc |-> Exc("TypeError"), arguments |-> <<>>]
        ELSE [exc |-> NoExc,
              arguments |-> [n \in positional \cup keyword |->
                                IF n \in positional THEN args[ParamIndex(func, n)]
                                ELSE kwargs[n]]]

\* What Python does when func itself is called: every parameter gets the argument
\* bound to it, or its default.
CallArguments(func, arguments) ==
    [n \in ParamNames(func) |->
        IF n \in DOMAIN arguments THEN arguments[n]
        ELSE func.params[ParamIndex(func, n)].default.value]

\* The body of a wrapped operation: a result that depends on every parameter, or
\* an exception of its own.
func_body(func, a) ==
    IF func = VariableGet
    THEN IF a["key"] = "2"
         THEN Raised(Exc("KeyError"))
         ELSE Returned(PyValue("str", "var" \o a["key"] \o "@" \o a["session"]))
    ELSE IF a["limit"] = "2"
         THEN Raised(Exc("ValueError"))
         ELSE Returned(PyValue("list", a["cls"] \o "#" \o a["limit"]))

\* func(*args, **kwargs) (line 153).
call_func(func, args, kwargs) ==
    LET b == bind(func, args, kwargs) IN
    IF b.exc # NoExc THEN Raised(b.exc)
    ELSE func_body(func, CallArguments(func, b.arguments))

(***************************************************************************)
(* The wrapper: local invocation, or the request it builds.                *)
(***************************************************************************)
\* Mutant of runs_local: the in-process branch is taken whatever mode was read.
runs_local_always(mode) == TRUE

\* Line 152: the call runs in-process when the mode read is not the internal API.
runs_local(mode) == ~mode

\* Mutant of wrapper_local: session is dropped from the keyword arguments before
\* func is called, as the remote path drops it.
wrapper_local_strips_session(c) ==
    LET kw == [n \in DOMAIN c.kwargs \ {"session"} |-> c.kwargs[n]] IN
    [f_calls |-> <<[c EXCEPT !.kwargs = kw]>>, outcome |-> call_func(c.func, c.args, kw)]

\* Line 153: the invocations of func the local path makes, and its outcome.
wrapper_local(c) ==
    [f_calls |-> <<c>>, outcome |-> call_func(c.func, c.args, c.kwargs)]

\* BaseSerialization.serialize of a dict (line 164): the dict wrapped in its encoding.
serialize(d) == [type |-> "dict", var |-> d]

\* The exception BaseSerialization.serialize raises for a dict holding a value it
\* has no encoding for; NoExc for the others.
serialize_exc(d) ==
    IF \E n \in DOMAIN d : d[n] = "lock" THEN Exc("SerializationError") ELSE NoExc

Drop(d, key) == [n \in DOMAIN d \ {key} |-> d[n]]

\* Mutant of strip_arguments: only session is deleted.
strip_arguments_keeps_cls(arguments) ==
    IF "session" \in DOMAIN arguments THEN Drop(arguments, "session") ELSE arguments

\* Lines 158-162: the bound arguments without session and cls.
strip_arguments(arguments) ==
    LET arguments_dict == arguments
        no_session == IF "session" \in DOMAIN arguments_dict
                      THEN Drop(arguments_dict, "session") ELSE arguments_dict
    IN  IF "cls" \in DOMAIN no_session THEN Drop(no_session, "cls") ELSE no_session

NoRequest == [built |-> FALSE, arguments_dict |-> <<>>, args_dict |-> serialize(<<>>),
              method_name |-> ""]

\* Mutant of build_request: an exception of the serializer is swallowed and the
\* request goes out all the same.
build_request_unserialized(c) ==
    LET bound == bind(c.func, c.args, c.kwargs) IN
    IF bound.exc # NoExc
    THEN [exc |-> bound.exc, request |-> NoRequest]
    ELSE LET arguments_dict == strip_arguments(bound.arguments) IN
         [exc |-> NoExc,
          request |-> [built |-> TRUE,
                       arguments_dict |-> arguments_dict,
                       args_dict |-> serialize(arguments_dict),
                       method_name |-> c.func.module \o "." \o c.func.qualname]]

\* Lines 157-165: [exc] is the exception that ended the wrapper before any request.
build_request(c) ==
    LET bound == bind(c.func, c.args, c.kwargs) IN
    IF bound.exc # NoExc
    THEN [exc |-> bound.exc, request |-> NoRequest]
    ELSE LET arguments_dict == strip_arguments(bound.arguments) IN
         IF serialize_exc(arguments_dict) # NoExc
         THEN [exc |-> serialize_exc(arguments_dict), request |-> NoRequest]
         ELSE
         [exc |-> NoExc,
          request |-> [built |-> TRUE,
                       arguments_dict |-> arguments_dict,
                       args_dict |-> serialize(arguments_dict),
                       method_name |-> c.func.module \o "." \o c.func.qualname]]

NoPost == [url |-> "", method |-> "", params |-> serialize(<<>>), token_method |-> "",
           token_serial |-> 0]
NoResponse == [status |-> 0, reason |-> "", body |-> ""]

\* Lines 150-166, up to the call of make_jsonrpc_request.
Wrapper ==
    /\ pc = "idle"
    /\ \E c \in Calls :
        LET mode == get_use_internal_api(Gate, conf) IN
        /\ call' = c
        /\ SetGate(mode.gate)
        /\ IF mode.exc # NoExc
           THEN /\ pc' = "done"
                /\ outcome' = Raised(mode.exc)
                /\ UNCHANGED <<w_use_internal_api, f_calls, request, attempt_number>>
           ELSE /\ w_use_internal_api' = IF mode.ret THEN "True" ELSE "False"
                /\ IF runs_local(mode.ret)
                   THEN /\ f_calls' = wrapper_local(c).f_calls
                        /\ outcome' = wrapper_local(c).outcome
                        /\ pc' = "done"
                        /\ UNCHANGED <<request, attempt_number>>
                   ELSE LET b == build_request(c) IN
                        /\ request' = b.request
                        /\ IF b.exc # NoExc
                           THEN /\ pc' = "done"
                                /\ outcome' = Raised(b.exc)
                                /\ UNCHANGED attempt_number
                           ELSE /\ pc' = "send"
                                /\ attempt_number' = 1
                                /\ UNCHANGED outcome
                        /\ UNCHANGED f_calls
    /\ last_op' = NoOp
    /\ UNCHANGED <<last_force, thread_vars>>
    /\ UNCHANGED <<conf, forced, events, last_post, last_attempt, response,
                   deserialize_calls>>

(***************************************************************************)
(* make_jsonrpc_request under tenacity.retry.                              *)
(***************************************************************************)
MaxAttempts == 10       \* stop=tenacity.stop_after_attempt(10)

\* retry=tenacity.retry_if_exception_type((NewConnectionError, ConnectionError))
RetryOn == {"NewConnectionError", "ConnectionError"}

\* What requests.post can do (line 141): raise, or hand back a response.
PostErrors == {"NewConnectionError", "ConnectionError", "ReadTimeout"}
Response(s, r, b) == [status |-> s, reason |-> r, body |-> b]
Responses ==
    { Response(200, "OK", ""), Response(200, "OK", "42"), Response(200, "OK", "{"),
      Response(204, "No Content", ""), Response(404, "Not Found", "not found") }
PostOutcomes ==
    { [error |-> e, response |-> NoResponse] : e \in PostErrors }
        \cup { [error |-> "", response |-> r] : r \in Responses }

\* The URLs the gate can hold, as token sequences: the forced ones and the ones
\* _init_values resolves (line 101).
EndpointUrls ==
    ForceUrls \cup ConfUrls \cup {SubSeq(u, 1, 4) \o <<DefaultApiPath>> : u \in ConfUrls}

\* The scheme requests finds in the URL string it is given: "" when there is none.
SchemeOf == [url \in {Concat(u) : u \in EndpointUrls} |->
                urlparse(CHOOSE u \in EndpointUrls : Concat(u) = url).scheme]
url_scheme(url) == IF url \in DOMAIN SchemeOf THEN SchemeOf[url] ELSE ""

\* requests.post(url=...) (line 141): a URL without a scheme raises MissingSchema,
\* one that no connection adapter serves (requests mounts http:// and https://)
\* raises InvalidSchema, both before anything goes on the wire; for the others the
\* connection fails, times out or answers.
post_outcomes(url) ==
    IF url_scheme(url) = ""
    THEN {[error |-> "MissingSchema", response |-> NoResponse]}
    ELSE IF url_scheme(url) \notin {"http", "https"}
    THEN {[error |-> "InvalidSchema", response |-> NoResponse]}
    ELSE PostOutcomes

\* Lines 142-146: the AirflowException of a response that is not a 200.
AirflowException(resp) ==
    [type |-> "AirflowException", status |-> resp.status, reason |-> resp.reason,
     text |-> resp.body, cause |-> ""]

\* Lines 141-147, one execution of the function body once the request is posted:
\* the exception it raises, or the content it returns.
jsonrpc_result(post) ==
    IF post.error # ""
    THEN [exc |-> Exc(post.error), content |-> ""]
    ELSE IF post.response.status # 200
    THEN [exc |-> AirflowException(post.response), content |-> ""]
    ELSE [exc |-> NoExc, content |-> post.response.body]

\* Mutant of should_retry: every exception is retried (no retry= predicate given).
should_retry_any(exc) == TRUE

\* tenacity: the attempt is retried when its exception is of a retried type ...
should_retry(exc) == exc.type \in RetryOn
\* Mutant of should_stop: no stop condition, a connection error is always retried.
should_stop_never(n) == FALSE

\* Mutant of should_stop: one attempt more is allowed before stopping.
should_stop_late(n) == n > MaxAttempts

\* ... unless stop_after_attempt says stop.
should_stop(n) == n >= MaxAttempts

\* Mutant of RetryError: the last attempt's exception is raised again (reraise=True).
RetryErrorReraised(last) == last

\* tenacity.RetryError, raised when the attempts are used up (reraise is not set):
\* it holds the last attempt, whose exception is its cause.
RetryError(last) ==
    [type |-> "RetryError", status |-> 0, reason |-> "", text |-> "", cause |-> last.type]

\* json.loads and BaseSerialization.deserialize (line 169) of a response body.
deserialize(body) ==
    IF body = "42" THEN [exc |-> NoExc, value |-> PyValue("int", "42")]
    ELSE [exc |-> Exc("JSONDecodeError"), value |-> PyNone]

\* Mutant of decode_result: the empty body is handed to the deserializer too.
decode_result_always(result) ==
    LET d == deserialize(result) IN
    [outcome |-> IF d.exc # NoExc THEN Raised(d.exc) ELSE Returned(d.value), calls |-> 1]

\* Lines 167-169: what wrapper makes of the bytes make_jsonrpc_request returned.
\* [calls]: the calls of the deserializer it made.
decode_result(result) ==
    IF result = ""
    THEN [outcome |-> Returned(PyNone), calls |-> 0]
    ELSE LET d == deserialize(result) IN
         [outcome |-> IF d.exc # NoExc THEN Raised(d.exc) ELSE Returned(d.value),
          calls |-> 1]

\* Mutant of retry_events: no before_sleep callback, the retry is slept on unlogged.
retry_events_unlogged == <<"sleep">>

\* Line 127 and tenacity's sleep: a retry is logged at warning level, then slept on.
retry_events == <<"log", "sleep">>

\* Mutant of post_request: the token of the call's first attempt is kept and sent
\* again by the retries.
post_request_cached_token(method_name, params_json, endpoint, n) ==
    [url |-> endpoint, method |-> method_name, params |-> params_json,
     token_method |-> method_name, token_serial |-> 1]

\* Lines 130-141: the request one attempt posts, to the endpoint read for this
\* attempt.  n is the number of this run of make_jsonrpc_request within the call:
\* each run builds a JWTSigner and has it sign {"method": method_name} (lines
\* 130-137), so the token in the Authorization header is the n-th one generated.
post_request(method_name, params_json, endpoint, n) ==
    [url |-> endpoint, method |-> method_name, params |-> params_json,
     token_method |-> method_name, token_serial |-> n]

\* One attempt of make_jsonrpc_request (lines 129-147) and what tenacity (lines
\* 123-128) and then wrapper (lines 166-169) do with its result.
\* The endpoint is read anew by every attempt (line 140); the gate is initialized
\* by then (the wrapper read the mode), so this read never runs _init_values.
Attempt ==
    /\ pc = "send"
    /\ \E post \in post_outcomes(get_internal_api_endpoint(Gate, conf).ret) :
        LET endpoint == get_internal_api_endpoint(Gate, conf)
            r == jsonrpc_result(post)
        IN  /\ SetGate(endpoint.gate)
            /\ last_post' = post_request(request.method_name, request.args_dict, endpoint.ret,
                                          attempt_number)
            /\ response' = post.response
            /\ last_attempt' = r.exc
            /\ IF r.exc = NoExc
               THEN \* line 147, then lines 167-169
                    /\ events' = events \o <<"sign", "post">>
                    /\ outcome' = decode_result(r.content).outcome
                    /\ deserialize_calls' = deserialize_calls + decode_result(r.content).calls
                    /\ pc' = "done"
               ELSE IF ~should_retry(r.exc)
               THEN /\ events' = events \o <<"sign", "post">>
                    /\ outcome' = Raised(r.exc)
                    /\ pc' = "done"
                    /\ UNCHANGED deserialize_calls
               ELSE IF should_stop(attempt_number)
               THEN /\ events' = events \o <<"sign", "post">>
                    /\ outcome' = Raised(RetryError(r.exc))
                    /\ pc' = "done"
                    /\ UNCHANGED deserialize_calls
               ELSE \* before_sleep=tenacity.before_log(logger, logging.WARNING), then the sleep
                    /\ events' = events \o <<"sign", "post">> \o retry_events
                    /\ pc' = "sleep"
                    /\ UNCHANGED <<outcome, deserialize_calls>>
    /\ last_op' = NoOp
    /\ UNCHANGED <<last_force, thread_vars>>
    /\ UNCHANGED <<conf, forced, call, w_use_internal_api, f_calls, request, attempt_number>>

\* The backoff sleep ends and tenacity starts the next attempt.
Wake ==
    /\ pc = "sleep"
    /\ pc' = "send"
    /\ attempt_number' = attempt_number + 1
    /\ UNCHANGED <<conf, forced, call, w_use_internal_api, f_calls, request,
                   events, last_post, last_attempt, response, deserialize_calls,
                   outcome>>
    /\ last_op' = NoOp
    /\ UNCHANGED <<last_force, thread_vars>>
    /\ UNCHANGED <<initialized, use_internal_api, internal_api_endpoint>>

\* The caller has the call's outcome; the next call starts afresh.
Return ==
    /\ pc = "done"
    /\ pc' = "idle"
    /\ call' = NoCall
    /\ w_use_internal_api' = "unbound"
    /\ f_calls' = <<>>
    /\ request' = NoRequest
    /\ attempt_number' = 0
    /\ events' = <<>>
    /\ last_post' = NoPost
    /\ last_attempt' = NoExc
    /\ response' = NoResponse
    /\ deserialize_calls' = 0
    /\ outcome' = NoOutcome
    /\ last_op' = NoOp
    /\ UNCHANGED <<last_force, thread_vars>>
    /\ UNCHANGED <<conf, initialized, use_internal_api, internal_api_endpoint, forced>>

(***************************************************************************)
(* The specification.                                                      *)
(***************************************************************************)
Init ==
    /\ conf \in Configs
    /\ initialized = FALSE
    /\ use_internal_api = FALSE
    /\ internal_api_endpoint = ""
    /\ forced = FALSE
    /\ last_op = NoOp
    /\ pc = "idle"
    /\ call = NoCall
    /\ w_use_internal_api = "unbound"
    /\ f_calls = <<>>
    /\ request = NoRequest
    /\ attempt_number = 0
    /\ events = <<>>
    /\ last_post = NoPost
    /\ last_attempt = NoExc
    /\ response = NoResponse
    /\ deserialize_calls = 0
    /\ outcome = NoOutcome
    /\ last_force = NoOp
    /\ tpc = [t \in Threads |-> "idle"]
    /\ tget = [t \in Threads |-> ""]
    /\ tval = [t \in Threads |-> NoVal]
    /\ tret = [t \in Threads |-> NoOutcome]
    /\ tfresh = [t \in Threads |-> FALSE]

Next ==
    \/ force_database_direct_access
    \/ ForceApiAccess
    \/ GetUseInternalApi
    \/ GetInternalApiEndpoint
    \/ Wrapper
    \/ Attempt
    \/ Wake
    \/ Return

Spec == Init /\ [][Next]_vars

\* The same, with what a wrapped call is given: requests.post terminates (with a
\* response or an exception) and so does tenacity's sleep, so a call that is to
\* post does post and a call that sleeps wakes up.  func and the rest of wrapper
\* run within the Wrapper and Attempt steps.
FairSpec == Spec /\ WF_vars(Attempt) /\ WF_vars(Wake)

(***************************************************************************)
(* The getters run by several threads.  No lock is taken anywhere in the   *)
(* class: a thread can be preempted between any two loads and stores of    *)
(* the class attributes, each of which is one step here.  What            *)
(* _init_values computes before its stores (lines 88-101) touches its own  *)
(* locals and the configuration only, and is part of the step that read    *)
(* the flag.                                                               *)
(***************************************************************************)
\* Lines 76-77 and 82-83: thread t calls a getter, which loads _initialized; on
\* False it enters _init_values, which raises (lines 91, 100) or has its two
\* locals ready for the stores.
getter_call(t, getter) ==
    /\ tpc[t] \in {"idle", "done"}
    /\ tget' = [tget EXCEPT ![t] = getter]
    /\ tfresh' = [tfresh EXCEPT ![t] = forced]
    /\ IF initialized
       THEN /\ tpc' = [tpc EXCEPT ![t] = "return"]
            /\ tval' = [tval EXCEPT ![t] = NoVal]
            /\ tret' = [tret EXCEPT ![t] = NoOutcome]
       ELSE LET v == init_values(conf) IN
            IF v.exc # NoExc
            THEN /\ tpc' = [tpc EXCEPT ![t] = "done"]
                 /\ tval' = [tval EXCEPT ![t] = NoVal]
                 /\ tret' = [tret EXCEPT ![t] = Raised(v.exc)]
            ELSE /\ tpc' = [tpc EXCEPT ![t] = "line 103"]
                 /\ tval' = [tval EXCEPT ![t] = [use |-> v.use, endpoint |-> v.endpoint]]
                 /\ tret' = [tret EXCEPT ![t] = NoOutcome]
    /\ last_op' = NoOp
    /\ UNCHANGED <<conf, gate_vars, last_force, call_vars>>

GetterCall == \E t \in Threads : \E getter \in Getters : getter_call(t, getter)

\* Line 103: InternalApiConfig._initialized = True.
store_initialized(t) ==
    /\ tpc[t] = "line 103"
    /\ initialized' = TRUE
    /\ tpc' = [tpc EXCEPT ![t] = "line 104"]
    /\ last_op' = NoOp
    /\ UNCHANGED <<conf, use_internal_api, internal_api_endpoint, forced, last_force,
                   tget, tval, tret, tfresh, call_vars>>

StoreInitialized == \E t \in Threads : store_initialized(t)

\* Line 104: InternalApiConfig._use_internal_api = use_internal_api.
store_use_internal_api(t) ==
    /\ tpc[t] = "line 104"
    /\ use_internal_api' = tval[t].use
    /\ tpc' = [tpc EXCEPT ![t] = "line 105"]
    /\ last_op' = NoOp
    /\ UNCHANGED <<conf, initialized, internal_api_endpoint, forced, last_force,
                   tget, tval, tret, tfresh, call_vars>>

StoreUseInternalApi == \E t \in Threads : store_use_internal_api(t)

\* Line 105: InternalApiConfig._internal_api_endpoint = internal_api_endpoint.
store_internal_api_endpoint(t) ==
    /\ tpc[t] = "line 105"
    /\ internal_api_endpoint' = tval[t].endpoint
    /\ tpc' = [tpc EXCEPT ![t] = "return"]
    /\ last_op' = NoOp
    /\ UNCHANGED <<conf, initialized, use_internal_api, forced, last_force,
                   tget, tval, tret, tfresh, call_vars>>

StoreInternalApiEndpoint == \E t \in Threads : store_internal_api_endpoint(t)

\* Lines 79 and 85: the getter loads the attribute and returns it.
getter_return(t) ==
    /\ tpc[t] = "return"
    /\ tret' = [tret EXCEPT ![t] =
                    IF tget[t] = "get_use_internal_api"
                    THEN Returned(PyBool(use_internal_api))
                    ELSE Returned(PyStr(internal_api_endpoint))]
    /\ tpc' = [tpc EXCEPT ![t] = "done"]
    /\ last_op' = NoOp
    /\ UNCHANGED <<conf, gate_vars, last_force, tget, tval, tfresh, call_vars>>

GetterReturn == \E t \in Threads : getter_return(t)

ConcNext ==
    \/ force_database_direct_access
    \/ ForceApiAccess
    \/ GetterCall
    \/ StoreInitialized
    \/ StoreUseInternalApi
    \/ StoreInternalApiEndpoint
    \/ GetterReturn

ConcSpec == Init /\ [][ConcNext]_vars

(***************************************************************************)
(* Properties.                                                             *)
(***************************************************************************)
Posts == Cardinality({i \in DOMAIN events : events[i] = "post"})
Signs == Cardinality({i \in DOMAIN events : events[i] = "sign"})
Logs == Cardinality({i \in DOMAIN events : events[i] = "log"})

\* C1: a call that read Local mode has invoked func exactly once, with the
\* positional and keyword arguments it was given (session and cls included), and
\* its outcome is that of calling func directly: the same value or the same
\* exception.
C1_LocalCallIsDirectCall ==
    (pc = "done" /\ w_use_internal_api = "False") =>
        /\ f_calls = <<call>>
        /\ f_calls[1].args = call.args
        /\ f_calls[1].kwargs = call.kwargs
        /\ outcome = call_func(call.func, call.args, call.kwargs)
        /\ outcome.kind \in {"returned", "raised"}

\* A local call that passed session by keyword and returned func's value.
C1_Witness ==
    /\ pc = "done"
    /\ w_use_internal_api = "False"
    /\ "session" \in DOMAIN call.kwargs
    /\ outcome.kind = "returned"
    /\ outcome.value = PyValue("str", "var1@" \o call.kwargs["session"])

\* C2: the mode is read once per call.  A call that read Local has signed no
\* token, posted nothing and built no request; a call that read Remote has not
\* invoked func in-process, whatever the gate says by now; no call does both.
C2_DecisionTakenOnce ==
    /\ w_use_internal_api = "False" =>
            /\ events = <<>>
            /\ last_post = NoPost
            /\ ~request.built
            /\ attempt_number = 0
            /\ pc = "done"
    /\ w_use_internal_api = "True" => f_calls = <<>>
    /\ w_use_internal_api = "unbound" => (f_calls = <<>> /\ events = <<>>)
    /\ ~(f_calls # <<>> /\ events # <<>>)
    /\ Len(f_calls) <= 1

\* A remote call still retrying, on its third attempt or later, after a force call
\* has switched the gate to Local.
C2_Witness ==
    /\ pc = "send"
    /\ attempt_number >= 3
    /\ w_use_internal_api = "True"
    /\ forced
    /\ ~use_internal_api
    /\ f_calls = <<>>

ConnectionErrors == {"NewConnectionError", "ConnectionError"}

C4_Non200IsTerminal ==
    (response.status # 0 /\ response.status # 200) =>
        /\ pc = "done"
        /\ outcome.kind = "raised"
        /\ outcome.exc.type = "AirflowException"
        /\ outcome.exc.status = response.status
        /\ outcome.exc.reason = response.reason
        /\ outcome.exc.text = response.body
        /\ Posts = attempt_number
        /\ Logs = attempt_number - 1

\* A 404 received on the 10th attempt, after nine connection errors.
C4_Witness ==
    /\ pc = "done"
    /\ attempt_number = 10
    /\ Logs = 9
    /\ response = Response(404, "Not Found", "not found")
    /\ outcome.exc.text = "not found"

Exhausted ==
    /\ pc = "done"
    /\ request.built
    /\ attempt_number = 10
    /\ last_attempt.type \in ConnectionErrors

\* C5 as stated: when the 10th attempt fails with a connection error too, the
\* exception the caller gets is that connection error.
C5_Original == Exhausted => outcome = Raised(last_attempt)

\* C5, amended: when the 10th attempt fails with a connection error too, the call
\* raises tenacity's RetryError, whose cause is the 10th attempt's connection error;
\* 10 attempts were posted and 9 retries logged, and no call ends on a connection
\* error before its 10th attempt or goes past it.
C5_ExhaustionRaisesRetryError ==
    /\ Exhausted =>
            /\ outcome.kind = "raised"
            /\ outcome.exc.type = "RetryError"
            /\ outcome.exc.cause = last_attempt.type
            /\ Posts = 10
            /\ Logs = 9
    /\ (pc = "done" /\ last_attempt.type \in ConnectionErrors) => attempt_number = 10
    /\ attempt_number <= 10

\* Ten attempts, the last a NewConnectionError.
C5_Witness ==
    /\ Exhausted
    /\ last_attempt.type = "NewConnectionError"
    /\ outcome.exc.cause = "NewConnectionError"
    /\ Posts = 10

RECURSIVE RetryTrace(_)
RetryTrace(k) ==
    IF k = 0 THEN <<>> ELSE RetryTrace(k - 1) \o <<"sign", "post", "log", "sleep">>

\* C6: a call whose attempt k+1 got a 200 with a non-empty body, after k connection
\* errors, made k+1 attempts and logged k retries, each log right after the failed
\* post and right before the sleep that precedes the next attempt; its outcome is
\* what the deserializer gives for the body (the int 42 for the body 42).
C6_RetriesThenSuccess ==
    /\ (pc = "done" /\ response.status = 200 /\ response.body # "") =>
            /\ attempt_number \in 1..10
            /\ Posts = attempt_number
            /\ Logs = attempt_number - 1
            /\ events = RetryTrace(attempt_number - 1) \o <<"sign", "post">>
            /\ response.body = "42" => outcome = Returned(PyValue("int", "42"))
            /\ deserialize(response.body).exc = NoExc =>
                    outcome = Returned(deserialize(response.body).value)
    /\ \A i \in DOMAIN events :
            events[i] = "sleep" => (i > 2 /\ events[i - 1] = "log" /\ events[i - 2] = "post")
    /\ pc = "send" => Logs = attempt_number - 1

\* Nine connection errors, then a 200 with the body 42 on the 10th attempt.
C6_Witness ==
    /\ pc = "done"
    /\ attempt_number = 10
    /\ Posts = 10
    /\ Logs = 9
    /\ response = Response(200, "OK", "42")
    /\ outcome = Returned(PyValue("int", "42"))

\* C7: a 200 with an empty body makes the call return None without a call of the
\* deserializer; a 200 with a non-empty body is handed to the deserializer once
\* and what the deserializer gives is the call's outcome.
C7_DecodeOf200 ==
    (pc = "done" /\ response.status = 200) =>
        IF response.body = ""
        THEN outcome = Returned(PyNone) /\ deserialize_calls = 0
        ELSE /\ deserialize_calls = 1
             /\ outcome = IF deserialize(response.body).exc = NoExc
                          THEN Returned(deserialize(response.body).value)
                          ELSE Raised(deserialize(response.body).exc)
             /\ response.body = "42" => outcome.value = PyValue("int", "42")

\* A 200 with an empty body: None, and the deserializer not called.
C7_Witness ==
    /\ pc = "done"
    /\ response = Response(200, "OK", "")
    /\ outcome = Returned(PyNone)
    /\ deserialize_calls = 0
    /\ Posts >= 1

StrippedNames == {"session", "cls"}

\* The parameter names the caller's arguments went to: the first Len(args)
\* parameters and the keywords.
PassedNames ==
    {call.func.params[i].name : i \in DOMAIN call.func.params \cap DOMAIN call.args}
        \cup DOMAIN call.kwargs

\* C8: the mapping handed to the serializer has no key session and no key cls,
\* and every other argument the caller passed, positionally or by keyword, is in it
\* with the value passed.
C8_SessionAndClsStripped ==
    request.built =>
        /\ "session" \notin DOMAIN request.arguments_dict
        /\ "cls" \notin DOMAIN request.arguments_dict
        /\ request.args_dict = [type |-> "dict", var |-> request.arguments_dict]
        /\ \A n \in DOMAIN call.kwargs \ StrippedNames :
                n \in DOMAIN request.arguments_dict
                    /\ request.arguments_dict[n] = call.kwargs[n]
        /\ \A i \in DOMAIN call.args :
                call.func.params[i].name \notin StrippedNames =>
                    /\ call.func.params[i].name \in DOMAIN request.arguments_dict
                    /\ request.arguments_dict[call.func.params[i].name] = call.args[i]

\* cls passed positionally and limit by keyword: only limit is serialized.
C8_Witness ==
    /\ request.built
    /\ call.func = DagGetPaused
    /\ Len(call.args) = 1
    /\ DOMAIN call.kwargs = {"limit"}
    /\ DOMAIN request.arguments_dict = {"limit"}
    /\ request.arguments_dict["limit"] = call.kwargs["limit"]

\* C9 as stated: every declared parameter the caller omitted (session and cls
\* excepted) is in the serialized mapping with its default value.
C9_Original ==
    request.built =>
        \A i \in DOMAIN call.func.params :
            LET p == call.func.params[i] IN
            (p.name \notin PassedNames /\ p.name \notin StrippedNames /\ p.default.has) =>
                /\ p.name \in DOMAIN request.arguments_dict
                /\ request.arguments_dict[p.name] = p.default.value

\* C9, amended: the serialized mapping holds exactly the arguments the caller
\* passed (session and cls excepted); a declared parameter the caller omitted is
\* absent from it, its default is not filled in.
C9_OnlyPassedArguments ==
    request.built =>
        /\ DOMAIN request.arguments_dict = PassedNames \ StrippedNames
        /\ \A i \in DOMAIN call.func.params :
                call.func.params[i].name \notin PassedNames =>
                    call.func.params[i].name \notin DOMAIN request.arguments_dict

\* get_paused called with cls alone: limit has a default and is not serialized.
C9_Witness ==
    /\ request.built
    /\ call.func = DagGetPaused
    /\ "limit" \notin PassedNames
    /\ request.arguments_dict = <<>>
    /\ pc = "send"

\* C10 as stated: once the gate is initialized, the endpoint is non-empty exactly
\* when the mode is Remote.
C10_Original ==
    initialized => (internal_api_endpoint # "" <=> use_internal_api)

\* C10, amended: between operations of a sequential execution, a gate initialized
\* by lazy initialization alone (no force call so far) has a non-empty endpoint
\* exactly when its mode is Remote; and a gate is never left initialized by a
\* getter that raised.
C10_LazyEndpointIffRemote ==
    /\ (initialized /\ ~forced) => (internal_api_endpoint # "" <=> use_internal_api)
    /\ (initialized /\ ~forced) =>
            /\ use_internal_api = conf.database_access_isolation
            /\ init_values(conf).exc = NoExc

\* Lazily initialized to Remote with the default path filled in.
C10_Witness ==
    /\ initialized
    /\ ~forced
    /\ use_internal_api
    /\ internal_api_endpoint = "http://api:9080/internal_api/v1/rpcapi"

\* C11 as stated: force_api_access with an endpoint whose scheme is neither http nor
\* https fails with a configuration error and does not become the gate's endpoint,
\* and no wrapped call posts to such an endpoint afterwards.
C11_Original ==
    /\ (last_op.op = "force_api_access" /\ url_scheme(last_op.arg) \notin {"http", "https"}) =>
            /\ last_op.exc = Exc("AirflowConfigException")
            /\ internal_api_endpoint # last_op.arg
    /\ last_post # NoPost => url_scheme(last_post.url) \in {"http", "https"}

\* C12: in a sequential execution, once the gate is initialized (by a force call or
\* by a lazy initialization that succeeded) every getter call is a pure read: it
\* returns the stored mode or endpoint, raises nothing, reads no configuration
\* option, and leaves the flag, the mode and the endpoint as they were; so does
\* every read a wrapped call makes.  Configuration is read only by a step that
\* starts from the uninitialized gate.
C12_ReadsArePure ==
    [][ /\ (initialized /\ last_op'.op \in Getters) =>
                /\ last_op'.exc = NoExc
                /\ last_op'.reads = {}
                /\ last_op'.op = "get_use_internal_api" =>
                        last_op'.ret = PyBool(use_internal_api)
                /\ last_op'.op = "get_internal_api_endpoint" =>
                        last_op'.ret = PyStr(internal_api_endpoint)
                /\ UNCHANGED <<initialized, use_internal_api, internal_api_endpoint>>
        /\ (initialized /\ last_op'.op \notin Forces) =>
                UNCHANGED <<initialized, use_internal_api, internal_api_endpoint>>
        /\ last_op'.reads # {} => ~initialized
      ]_vars

\* The endpoint was read from a gate that lazy initialization had set to Remote:
\* nothing was read from configuration, the resolved endpoint came back.
C12_Witness ==
    /\ ~forced
    /\ initialized
    /\ last_op.op = "get_internal_api_endpoint"
    /\ last_op.reads = {}
    /\ last_op.ret = PyStr("https://api/custom/rpc")

\* C14: whatever the gate was before, right after force_database_direct_access a
\* read of the mode returns False (Local), and right after force_api_access(e) a
\* read of the mode returns True (Remote) and a read of the endpoint returns e;
\* these reads raise nothing, ask conf for nothing and change nothing.  A second
\* force_database_direct_access in a row leaves the gate as the first left it.
C14_ForceIsLastWriter ==
    /\ [](last_op.op = "force_database_direct_access" =>
            get_use_internal_api(Gate, conf) =
                [gate |-> Gate, exc |-> NoExc, reads |-> {}, ret |-> FALSE])
    /\ [](last_op.op = "force_api_access" =>
            /\ get_use_internal_api(Gate, conf) =
                    [gate |-> Gate, exc |-> NoExc, reads |-> {}, ret |-> TRUE]
            /\ get_internal_api_endpoint(Gate, conf) =
                    [gate |-> Gate, exc |-> NoExc, reads |-> {}, ret |-> last_op.arg])
    /\ [][ (last_op.op = "force_database_direct_access"
            /\ last_op'.op = "force_database_direct_access") =>
                UNCHANGED <<initialized, use_internal_api, internal_api_endpoint>>
         ]_vars

\* force_api_access on a gate that an earlier force_api_access had given another
\* endpoint, under a configuration that asks for no isolation.
C14_Witness ==
    /\ last_op = Forced("force_api_access", "http://edge:8080/rpc")
    /\ ~conf.database_access_isolation
    /\ internal_api_endpoint = "http://edge:8080/rpc"
    /\ use_internal_api
    /\ pc = "done"
    /\ last_post.url = "ftp://edge/rpc"

ConfScheme == urlparse(conf.internal_api_url).scheme

\* C15: a getter called on the uninitialized gate with isolation enabled raises
\* RuntimeError when AIP-44 is not enabled in the build (the URL is not looked at
\* then) and AirflowConfigException when AIP-44 is enabled and the scheme of the
\* configured URL is neither http nor https; in both cases the flag, the mode and
\* the endpoint stay as they were, the gate uninitialized.  With isolation disabled
\* it initializes the gate to Local with the empty endpoint and internal_api_url
\* is not read.  A wrapped call whose read of the mode raised ends with that
\* exception, func not called, nothing signed and nothing posted.
C15_FailedInitLeavesGate ==
    /\ [][ (~initialized /\ last_op'.op \in Getters) =>
            /\ (conf.database_access_isolation /\ ~conf.ENABLE_AIP_44) =>
                    /\ last_op'.exc = Exc("RuntimeError")
                    /\ last_op'.ret = PyNone
                    /\ last_op'.reads = {"database_access_isolation"}
                    /\ UNCHANGED <<initialized, use_internal_api, internal_api_endpoint>>
            /\ (conf.database_access_isolation /\ conf.ENABLE_AIP_44
                    /\ ConfScheme \notin {"http", "https"}) =>
                    /\ last_op'.exc = Exc("AirflowConfigException")
                    /\ last_op'.ret = PyNone
                    /\ UNCHANGED <<initialized, use_internal_api, internal_api_endpoint>>
            /\ ~conf.database_access_isolation =>
                    /\ last_op'.exc = NoExc
                    /\ last_op'.reads = {"database_access_isolation"}
                    /\ initialized'
                    /\ ~use_internal_api'
                    /\ internal_api_endpoint' = ""
                    /\ last_op'.ret \in {PyBool(FALSE), PyStr("")}
         ]_vars
    /\ [][ (pc = "idle" /\ pc' = "done" /\ w_use_internal_api' = "unbound") =>
            /\ ~initialized
            /\ UNCHANGED <<initialized, use_internal_api, internal_api_endpoint>>
            /\ outcome' = Raised(init_values(conf).exc)
            /\ outcome'.exc.type \in {"RuntimeError", "AirflowConfigException"}
         ]_vars
    /\ []((pc = "done" /\ w_use_internal_api = "unbound") =>
            /\ events = <<>>
            /\ last_post = NoPost
            /\ f_calls = <<>>
            /\ attempt_number = 0)

\* A wrapped call under isolation with an ftp URL configured: it ended with the
\* configuration error and the gate is still uninitialized.
C15_Witness ==
    /\ pc = "done"
    /\ w_use_internal_api = "unbound"
    /\ ConfScheme = "ftp"
    /\ outcome = Raised(Exc("AirflowConfigException"))
    /\ ~initialized
    /\ internal_api_endpoint = ""
    /\ events = <<>>

\* The endpoint each configured http or https URL is to resolve to, written out.
ResolvedEndpoint ==
    ( <<"http", ":", "//", "api:9080">> :> "http://api:9080/internal_api/v1/rpcapi" ) @@
    ( <<"https", ":", "//", "api", "/">> :> "https://api/internal_api/v1/rpcapi" ) @@
    ( <<"https", ":", "//", "api", "/", "custom", "/", "rpc">> :> "https://api/custom/rpc" )

\* C16: a gate that lazy initialization set to Remote holds, for the configured
\* http or https URL, scheme://netloc followed by the configured path, or by
\* /internal_api/v1/rpcapi when the configured path is empty or "/"; a wrapped
\* call of that gate posts to this URL.
C16_EndpointResolved ==
    /\ (initialized /\ ~forced /\ use_internal_api) =>
            /\ conf.internal_api_url \in DOMAIN ResolvedEndpoint
            /\ internal_api_endpoint = ResolvedEndpoint[conf.internal_api_url]
    /\ (~forced /\ last_post # NoPost) =>
            last_post.url = ResolvedEndpoint[conf.internal_api_url]
    /\ \A u \in ConfUrls :
            urlparse(u).scheme \in {"http", "https"} => u \in DOMAIN ResolvedEndpoint

\* A wrapped call posted to the default path of the host configured with the
\* root path.
C16_Witness ==
    /\ ~forced
    /\ conf.internal_api_url = <<"https", ":", "//", "api", "/">>
    /\ internal_api_endpoint = "https://api/internal_api/v1/rpcapi"
    /\ last_post.url = "https://api/internal_api/v1/rpcapi"

\* The name the function is registered under on the server: func.__module__, a
\* dot, func.__qualname__.
RpcName ==
    ( VariableGet :> "airflow.models.variable.Variable.get" ) @@
    ( DagGetPaused :> "airflow.models.dag.DagModel.get_paused" )

\* C17: every post is preceded, within its own attempt, by the signing of a token:
\* the k-th post of a call carries the k-th token generated in that call, so no
\* token is sent twice, and a new call starts with no token.  The method claim of
\* the token equals the method field of the posted body, and both are func's
\* module path, a dot and func's qualified name.
C17_FreshTokenPerAttempt ==
    /\ Signs = Posts
    /\ \A i \in DOMAIN events :
            events[i] = "post" => (i > 1 /\ events[i - 1] = "sign")
    /\ last_post # NoPost =>
            /\ last_post.token_serial = Posts
            /\ pc # "send" => last_post.token_serial = attempt_number
            /\ last_post.token_method = last_post.method
            /\ last_post.method = RpcName[call.func]
    /\ pc = "idle" => (last_post = NoPost /\ Signs = 0)

\* The third attempt of a get_paused call has posted the third token.
C17_Witness ==
    /\ call.func = DagGetPaused
    /\ attempt_number = 3
    /\ Posts = 3
    /\ last_post.token_serial = 3
    /\ last_post.token_method = "airflow.models.dag.DagModel.get_paused"

\* The call at hand does not fit func's signature.
BindFails == bind(call.func, call.args, call.kwargs).exc # NoExc

\* The call at hand binds, and an argument other than session and cls is an object
\* the serializer has no encoding for.
SerializeFails ==
    /\ ~BindFails
    /\ \E n \in PassedNames \ StrippedNames :
            bind(call.func, call.args, call.kwargs).arguments[n] = "lock"

\* C18: a remote call builds its request, then sends, then decodes.  When bind or
\* the serializer raises, the call ends with that exception and nothing was signed
\* or posted; nothing is posted before the request is built; the deserializer is
\* called at most once, after an attempt that got a 200, by a call that ends there;
\* an exception of the deserializer is the call's outcome as raised, and the
\* attempt that got the 200 is the last one.
C18_BuildSendDecode ==
    /\ (w_use_internal_api = "True" /\ BindFails) =>
            /\ pc = "done"
            /\ outcome = Raised(Exc("TypeError"))
            /\ events = <<>>
            /\ last_post = NoPost
    /\ (w_use_internal_api = "True" /\ SerializeFails) =>
            /\ pc = "done"
            /\ outcome = Raised(Exc("SerializationError"))
            /\ events = <<>>
            /\ last_post = NoPost
    /\ (events # <<>> \/ pc \in {"send", "sleep"}) =>
            (request.built /\ ~BindFails /\ ~SerializeFails)
    /\ deserialize_calls \in {0, 1}
    /\ deserialize_calls = 1 =>
            /\ pc = "done"
            /\ response.status = 200
            /\ events[Len(events)] = "post"
            /\ Posts = attempt_number
            /\ deserialize(response.body).exc # NoExc =>
                    outcome = Raised(deserialize(response.body).exc)
    /\ (pc = "done" /\ w_use_internal_api = "True" /\ response.status # 200) =>
            deserialize_calls = 0

\* The second attempt got a 200 whose body is not JSON: the call ended with the
\* decoder's exception after two posts.
C18_Witness ==
    /\ pc = "done"
    /\ response = Response(200, "OK", "{")
    /\ deserialize_calls = 1
    /\ outcome = Raised(Exc("JSONDecodeError"))
    /\ Posts = 2
    /\ attempt_number = 2

\* C19: a wrapped call that has started ends, returned or raised.  The attempt
\* number only grows while the call runs and never exceeds 10, each attempt adds
\* at most four events, and a call that is to post or that sleeps reaches its end.
C19_CallTerminates ==
    /\ [](attempt_number <= MaxAttempts /\ Len(events) <= 4 * MaxAttempts)
    /\ [][ (pc \in {"send", "sleep"}) => (attempt_number' >= attempt_number) ]_vars
    /\ [](pc = "done" => outcome.kind \in {"returned", "raised"})
    /\ (pc \in {"send", "sleep"}) ~> (pc = "done")

\* A call that slept nine times and ended at its tenth attempt.
C19_Witness ==
    /\ pc = "done"
    /\ attempt_number = MaxAttempts
    /\ Len(events) = 4 * MaxAttempts - 2
    /\ outcome.kind = "raised"
    /\ outcome.exc.type = "RetryError"

\* What configuration says a getter returns.
ConfValue(getter) ==
    IF getter = "get_use_internal_api"
    THEN PyBool(init_values(conf).use)
    ELSE PyStr(init_values(conf).endpoint)

\* C13 as stated: with no force call and a configuration _init_values accepts,
\* every getter call of every thread returns the value derived from configuration,
\* however the loads and stores of the threads interleave.
C13_Original ==
    \A t \in Threads :
        (~forced /\ init_values(conf).exc = NoExc /\ tpc[t] = "done") =>
            tret[t] = Returned(ConfValue(tget[t]))

\* C20 as stated: a getter call that began after a force call had returned, with
\* no force call since, returns what that force call set: the mode, and for
\* force_api_access the endpoint it was given.
C20_Original ==
    \A t \in Threads :
        (tfresh[t] /\ tpc[t] = "done") =>
            /\ tget[t] = "get_use_internal_api" =>
                    tret[t] = Returned(PyBool(last_force.op = "force_api_access"))
            /\ (tget[t] = "get_internal_api_endpoint"
                    /\ last_force.op = "force_api_access") =>
                    tret[t] = Returned(PyStr(last_force.arg))

====
